---- MODULE Spec2Model ----
(***************************************************************************)
(* State-machine model of the modrinth malware scanner: the egui frame     *)
(* handler TemplateApp::update (src/src/app.rs), the scan thread it        *)
(* spawns, compute_file_hashes with its per-file hashing threads and       *)
(* remove_files (src/src/scan.rs).                                         *)
(*                                                                         *)
(* Threads interleave at their accesses to shared memory (the atomics, the *)
(* DashMaps, the error slot) and to the file system; thread-local          *)
(* computation is folded into the step that ends with such an access.      *)
(***************************************************************************)
EXTENDS Integers, Sequences, FiniteSets, TLC

\* ------------------------------------------------------------------ bounds
MaxFiles == 2   \* regular files under the scanned root
MaxRem == 2     \* clicks on "Remove files" (remediation threads)

\* The longest file compute_file_sha1 is given, in bytes.
MaxLen == 3

\* The length of the read buffer: 1024 * 1024 at scan.rs:64, scaled down.
BUFFER_SIZE == 2

Rems == 1..MaxRem

\* The io::Error kinds remove_file returns in the model, scan.rs:84; the slot
\* holds the one the failed call met (ScanError::IO).
IoErrors == {"NotFound", "PermissionDenied"}

\* --------------------------------------------------------- program constants
\* scan.rs:11-17, with the duplicate entry kept.
INFECTED_HASHES ==
    << "179b5da318604f97616b5108f305e2a8e4609484",
       "1a1c4dcae846866c58cc1abf71fb7f7aa4e7352a",
       "e4d55310039b965fce6756da5286b481cfb09946",
       "2f47e57a6bedc729359ffaf6f0149876008b5cc3",
       "2f47e57a6bedc729359ffaf6f0149876008b5cc3" >>

\* File contents the model distinguishes: two whose SHA-1 is a signature and
\* the five bytes "hello".
Contents == {"bad1", "bad2", "hello"}

\* hasher.finalize() formatted with {:x} (scan.rs:78): the lowercase hex SHA-1
\* of the bytes fed to the hasher.
Sha1Hex(c) ==
    CASE c = "bad1" -> "179b5da318604f97616b5108f305e2a8e4609484"
      [] c = "bad2" -> "2f47e57a6bedc729359ffaf6f0149876008b5cc3"
      [] c = "hello" -> "aaf4c61ddcc5e8a2dabede0f3b482cd9aea9434d"
      [] OTHER -> "da39a3ee5e6b4b0d3255bfef95601890afd80709"

\* What happens when a hashing thread runs on the file: compute_file_sha1
\* returns Ok, returns Err (open or read failed), or the thread panics.
Outcomes == {"ok", "ioerr", "panic"}

\* A file as its hashing thread finds it: what happens and, when all of it
\* is read, its content.
Attrs == [content : Contents, outcome : {"ok"}]
           \cup [content : {""}, outcome : Outcomes \ {"ok"}]
Unread == [content |-> "", outcome |-> "none"]

\* What std::fs::remove_file returns on a file that exists.
RemoveOutcomes == {"Ok", "PermissionDenied"}

VARIABLES
    walk,             \* the entries WalkDir yields, in order
    attr,             \* file -> content and outcome its hashing thread met
    fs,               \* the files that exist
    scanning,         \* TemplateApp.scanning
    scan_status,      \* TemplateApp.scan_status, the completion flag
    current_error,    \* TemplateApp.current_error, the error slot
    scan_result,      \* TemplateApp.scan_result, the match mapping
    total_count,      \* TemplateApp.total_count: discovered files
    current_progress, \* TemplateApp.current_progress: completed files
    upc,              \* position of the UI thread inside update()
    view,             \* what the last frame rendered
    spc,              \* position of the scan thread
    wi,               \* index of the next walk entry
    ji,               \* index of the next handle to join
    handles,          \* compute_file_hashes: handles, as the files hashed
    hashes,           \* compute_file_hashes: the digest -> path DashMap
    lastInsert,       \* history: digest -> path of the latest insert
    retval,           \* what compute_file_hashes returned
    todo,             \* keys of the returned map the filter loop has left
    hpc,              \* file -> position of its hashing thread
    rpc,              \* remediation thread -> position
    rpaths,           \* remediation thread -> its paths argument
    ridx,             \* remediation thread -> index into paths
    rres,             \* remediation thread -> what remove_files returned:
                      \* "Ok", or the kind of the io::Error
    rfail,            \* history: index of the path whose deletion failed
    rdeleted,         \* history: files the thread deleted
    doneCounts,       \* history: the two counters when the flag was set
    arc_refs,         \* strong count of the Arc around hashes
    sha1pc,           \* compute_file_sha1, in detail: position
    fbytes,           \* ... the bytes of the file
    fpos,             \* ... the offset of the open file
    buffer,           \* ... buffer
    hasher,           \* ... the bytes the hasher has been given, in order
    sha1res           \* ... what the function returned

vars == << walk, attr, fs, scanning, scan_status, current_error,
           scan_result, total_count, current_progress, upc, view, spc, wi, ji,
           handles, hashes, lastInsert, retval, todo, hpc, rpc, rpaths, ridx,
           rres, rfail, rdeleted, doneCounts, arc_refs, sha1pc, fbytes, fpos,
           buffer, hasher, sha1res >>

appVars == << scanning, scan_status, current_error, scan_result >>
cntVars == << total_count, current_progress >>
uiVars == << upc, view >>
scanVars == << spc, wi, ji, handles, hashes, lastInsert, retval, todo,
              doneCounts >>
remVars == << rpc, rpaths, ridx, rres, rfail, rdeleted >>
envVars == << walk, attr >>
fsVars == << fs >>
sha1Vars == << sha1pc, fbytes, fpos, buffer, hasher, sha1res >>

\* ------------------------------------------------------------------ helpers
EmptyMap == [k \in {} |-> 0]

Range(s) == {s[i] : i \in DOMAIN s}

\* A map whose insert keeps the value a key already has.
MapInsertKeepFirst(m, k, v) ==
    [x \in (DOMAIN m) \cup {k} |-> IF x \in DOMAIN m THEN m[x] ELSE v]

\* A map whose insert drops the other keys.
MapInsertClobber(m, k, v) == [x \in {k} |-> v]

\* DashMap::insert: the new value replaces an older one under the same key.
MapInsert(m, k, v) == [x \in (DOMAIN m) \cup {k} |-> IF x = k THEN v ELSE m[x]]

\* A filter that lets every digest through.
IsInfectedNoFilter(key) == TRUE

\* INFECTED_HASHES.contains(&&*key), app.rs:141.
IsInfected(key) == \E i \in DOMAIN INFECTED_HASHES : INFECTED_HASHES[i] = key

\* The entries of a walk over n files with an error as entry number e of the
\* files (0: no error).  WalkDir yields the root directory first.
DirEntry == [kind |-> "dir", file |-> 0]
ErrEntry == [kind |-> "err", file |-> 0]
FileEntry(f) == [kind |-> "file", file |-> f]

WalkOf(n, e) ==
    LET files == [i \in 1..n |-> FileEntry(i)]
    IN  IF e = 0 THEN << DirEntry >> \o files
        ELSE << DirEntry >> \o SubSeq(files, 1, e - 1) \o << ErrEntry >>
             \o SubSeq(files, e, n)

\* The orders in which DashMap::iter can yield the values of m.
IterOrders(m) ==
    LET n == Cardinality(DOMAIN m)
    IN  {s \in [1..n -> Range(m)] : \A i, j \in 1..n : i # j => s[i] # s[j]}

\* ------------------------------------------------------------------ Init
\* TemplateApp::default (app.rs:55-68) over a tree of at most MaxFiles files.
Init ==
    /\ \E n \in 0..MaxFiles :
         /\ attr = [f \in 1..n |-> Unread]
         /\ \E e \in 0..(n + 1) : walk = WalkOf(n, e)
         /\ fs = 1..n
    /\ scanning = FALSE
    /\ scan_status = FALSE
    /\ current_error = "None"
    /\ scan_result = EmptyMap
    /\ total_count = 0
    /\ current_progress = 0
    /\ upc = "top"
    /\ view = "none"
    /\ spc = "idle"
    /\ wi = 1
    /\ ji = 1
    /\ handles = << >>
    /\ hashes = EmptyMap
    /\ lastInsert = EmptyMap
    /\ retval = "none"
    /\ todo = {}
    /\ hpc = [f \in DOMAIN attr |-> "unspawned"]
    /\ rpc = [r \in Rems |-> "unspawned"]
    /\ rpaths = [r \in Rems |-> << >>]
    /\ ridx = [r \in Rems |-> 1]
    /\ rres = [r \in Rems |-> "none"]
    /\ rfail = [r \in Rems |-> 0]
    /\ rdeleted = [r \in Rems |-> {}]
    /\ doneCounts = << 0, 0 >>
    /\ arc_refs = 0
    /\ sha1pc = "off"
    /\ fbytes = << >>
    /\ fpos = 0
    /\ buffer = << >>
    /\ hasher = << >>
    /\ sha1res = "none"

\* ------------------------------------------------------------ the UI thread
\* update(), app.rs:156-160: the frame shows the error when the slot holds
\* one and skips the rest of the chain; otherwise it goes on to line 161.
ShowErrorOrGoOn ==
    IF current_error # "None"
    THEN /\ view' = "error"
         /\ upc' = "top"
    ELSE /\ upc' = "status"
         /\ UNCHANGED view

\* The read guard of `self.current_error.read()`, app.rs:156: a temporary of
\* the if-let scrutinee, held to the end of the if / else-if / else-if chain
\* (app.rs:213).  A frame that found the slot empty holds it until it ends;
\* a write to the slot waits for it.
ReadGuardHeld == upc = "status"

\* The read of the error slot, app.rs:156, of a frame in which "Begin scan"
\* was not clicked or not shown (top) or was clicked (slot).
FrameTop ==
    /\ upc \in {"top", "slot"}
    /\ ShowErrorOrGoOn
    /\ UNCHANGED << appVars, cntVars, scanVars, hpc, remVars,
                    envVars, sha1Vars, arc_refs, fsVars >>

\* A "Begin scan" that is shown again once a scan is over
\* (!self.scanning || scan_status) and starts another scan thread.
FrameBeginScanAgain ==
    /\ upc = "top"
    /\ ~scanning \/ scan_status
    /\ \A f \in DOMAIN hpc : hpc[f] \notin {"run", "incr"}
    /\ scanning' = TRUE
    /\ scan_result' = EmptyMap
    /\ spc' = "walk"
    /\ arc_refs' = 1
    /\ wi' = 1
    /\ ji' = 1
    /\ handles' = << >>
    /\ hashes' = EmptyMap
    /\ lastInsert' = EmptyMap
    /\ retval' = "none"
    /\ todo' = {}
    /\ hpc' = [f \in DOMAIN hpc |-> "unspawned"]
    /\ upc' = "slot"
    /\ UNCHANGED << scan_status, current_error, cntVars, doneCounts, remVars,
                    envVars, sha1Vars, fsVars, view >>

\* "Begin scan" that starts the scan thread and leaves self.scanning alone.
FrameBeginScanNoFlag ==
    /\ upc = "top"
    /\ ~scanning /\ ~scan_status
    /\ scan_result' = EmptyMap
    /\ spc' = "walk"
    /\ arc_refs' = 1
    /\ upc' = "slot"
    /\ UNCHANGED << scanning, scan_status, current_error, cntVars, wi, ji,
                    handles, hashes, lastInsert, retval, todo, doneCounts, hpc,
                    remVars, envVars, sha1Vars, fsVars, view >>

\* A frame in which "Begin scan" is shown and clicked, app.rs:127-152: the
\* scan thread is spawned with its own Arc around a new map (scan.rs:34).
\* The frame reads the error slot afterwards (app.rs:156), in a later step:
\* the scan thread can run in between.
FrameBeginScan ==
    /\ upc = "top"
    /\ ~scanning /\ ~scan_status
    /\ scanning' = TRUE
    /\ scan_result' = EmptyMap
    /\ spc' = "walk"
    /\ arc_refs' = 1
    /\ upc' = "slot"
    /\ UNCHANGED << scan_status, current_error, cntVars, wi, ji, handles,
                    hashes, lastInsert, retval, todo, doneCounts, hpc, remVars,
                    envVars, sha1Vars, fsVars, view >>

\* app.rs:161-176 and 189-196: the scan-complete view, "Remove files" not
\* clicked.
FrameComplete ==
    /\ upc = "status"
    /\ scan_status
    /\ view' = IF scan_result = EmptyMap THEN "clean" ELSE "malware"
    /\ upc' = "top"
    /\ UNCHANGED << appVars, cntVars, scanVars, hpc, remVars,
                    envVars, sha1Vars, arc_refs, fsVars >>

\* A "Remove files" that is shown as soon as the match map has an entry,
\* whether or not the flag is set.
FrameRemoveFilesAnytime ==
    /\ upc = "status"
    /\ scan_result # EmptyMap
    /\ \E r \in Rems :
         /\ rpc[r] = "unspawned"
         /\ \A q \in Rems : q < r => rpc[q] # "unspawned"
         /\ \E paths \in IterOrders(scan_result) :
              rpaths' = [rpaths EXCEPT ![r] = paths]
         /\ rpc' = [rpc EXCEPT ![r] = "check"]
    /\ view' = "malware"
    /\ upc' = "top"
    /\ UNCHANGED << appVars, cntVars, scanVars, hpc, ridx, rres, rfail,
                    rdeleted, envVars, sha1Vars, arc_refs, fsVars >>

\* app.rs:177-187: the scan-complete view with matches, "Remove files"
\* clicked: a remediation thread is spawned on the values of scan_result.
\* The map is not modified once the flag is set, so iter() yields the same
\* order on every click.
FrameRemoveFiles ==
    /\ upc = "status"
    /\ scan_status
    /\ scan_result # EmptyMap
    /\ \E r \in Rems :
         /\ rpc[r] = "unspawned"
         /\ \A q \in Rems : q < r => rpc[q] # "unspawned"
         /\ \E paths \in IterOrders(scan_result) :
              /\ \A q \in Rems : rpc[q] # "unspawned" => rpaths[q] = paths
              /\ rpaths' = [rpaths EXCEPT ![r] = paths]
         /\ rpc' = [rpc EXCEPT ![r] = "check"]
    /\ view' = "malware"
    /\ upc' = "top"
    /\ UNCHANGED << appVars, cntVars, scanVars, hpc, ridx, rres, rfail,
                    rdeleted, envVars, sha1Vars, arc_refs, fsVars >>

\* app.rs:197-213: the flag is not set; "Scanning..." while self.scanning,
\* nothing otherwise.
FrameScanning ==
    /\ upc = "status"
    /\ ~scan_status
    /\ view' = IF scanning THEN "scanning" ELSE "none"
    /\ upc' = "top"
    /\ UNCHANGED << appVars, cntVars, scanVars, hpc, remVars,
                    envVars, sha1Vars, arc_refs, fsVars >>

\* ---------------------------------------------------------- the scan thread
\* A walk that does not count the file it spawns a thread for.
WalkEntryNoCount ==
    /\ spc = "walk"
    /\ wi <= Len(walk)
    /\ LET entry == walk[wi]
       IN  CASE entry.kind = "err" ->
                  /\ retval' = "WalkDir"
                  /\ spc' = "err"
                  /\ arc_refs' = arc_refs - 1
                  /\ UNCHANGED << wi, handles, hpc >>
             [] entry.kind = "file" ->
                  /\ arc_refs' = arc_refs + 1
                  /\ hpc' = [hpc EXCEPT ![entry.file] = "run"]
                  /\ handles' = Append(handles, entry.file)
                  /\ wi' = wi + 1
                  /\ UNCHANGED << retval, spc >>
             [] OTHER ->
                  /\ wi' = wi + 1
                  /\ UNCHANGED << retval, spc, handles, hpc, arc_refs >>
    /\ UNCHANGED << appVars, cntVars, uiVars, ji, hashes, lastInsert,
                    todo, doneCounts, remVars, envVars, sha1Vars, fsVars >>

\* compute_file_hashes, scan.rs:37-54: one iteration of the walk.  An error
\* entry returns at once through `?`, dropping the handles (the threads are
\* detached, not joined); a regular file is counted and a hashing thread is
\* spawned on it; any other entry is skipped.
WalkEntry ==
    /\ spc = "walk"
    /\ wi <= Len(walk)
    /\ LET entry == walk[wi]
       IN  CASE entry.kind = "err" ->
                  /\ retval' = "WalkDir"
                  /\ spc' = "err"
                  /\ arc_refs' = arc_refs - 1
                  /\ UNCHANGED << wi, total_count, handles, hpc >>
             [] entry.kind = "file" ->
                  /\ total_count' = total_count + 1
                  /\ arc_refs' = arc_refs + 1
                  /\ hpc' = [hpc EXCEPT ![entry.file] = "run"]
                  /\ handles' = Append(handles, entry.file)
                  /\ wi' = wi + 1
                  /\ UNCHANGED << retval, spc >>
             [] OTHER ->
                  /\ wi' = wi + 1
                  /\ UNCHANGED << retval, spc, total_count, handles, hpc,
                                  arc_refs >>
    /\ UNCHANGED << appVars, current_progress, uiVars, ji, hashes, lastInsert,
                    todo, doneCounts, remVars, envVars, sha1Vars, fsVars >>

\* scan.rs:41-45: the file is counted, but std::thread::spawn panics because
\* the OS does not create the thread.  The scan thread unwinds: its Arc and
\* the handles are dropped, nothing after the call runs.
SpawnPanic ==
    /\ spc = "walk"
    /\ wi <= Len(walk)
    /\ walk[wi].kind = "file"
    /\ total_count' = total_count + 1
    /\ arc_refs' = arc_refs - 1
    /\ spc' = "panicked"
    /\ UNCHANGED << appVars, current_progress, uiVars, wi, ji, handles, hashes,
                    lastInsert, retval, todo, doneCounts, hpc, remVars, envVars,
                    sha1Vars, fsVars >>

\* scan.rs:54-56: the walk is exhausted, the join loop starts.
WalkEnd ==
    /\ spc = "walk"
    /\ wi > Len(walk)
    /\ spc' = "join"
    /\ UNCHANGED << appVars, cntVars, uiVars, wi, ji, handles, hashes,
                    lastInsert, retval, todo, doneCounts, hpc, remVars,
                    envVars, sha1Vars, arc_refs,
                    fsVars >>

\* handle.join() returns once the thread has ended, scan.rs:57.
JoinReady(f) == hpc[f] \in {"finished", "panicked"}

\* scan.rs:56-58: join the next handle; a panicked thread makes join return
\* Err, which returns JoinError at once, the later handles unjoined.
JoinHandle ==
    /\ spc = "join"
    /\ ji <= Len(handles)
    /\ JoinReady(handles[ji])
    /\ IF hpc[handles[ji]] = "panicked"
       THEN /\ retval' = "JoinError"
            /\ spc' = "err"
            /\ arc_refs' = arc_refs - 1
            /\ UNCHANGED << ji, todo >>
       ELSE /\ ji' = ji + 1
            /\ UNCHANGED << retval, spc, todo, arc_refs >>
    /\ UNCHANGED << appVars, cntVars, uiVars, wi, handles, hashes, lastInsert,
                    doneCounts, hpc, remVars, envVars, sha1Vars, fsVars >>

\* Arc::try_unwrap(hashes), scan.rs:60: Ok when this is the only strong
\* reference.
TryUnwrapOk == arc_refs = 1

\* scan.rs:60 and app.rs:139-140: every handle is joined; try_unwrap takes
\* the map out of the Arc, the map is returned and the filter loop starts on
\* its entries.  unwrap() on a failed try_unwrap panics the scan thread.
ReturnOk ==
    /\ spc = "join"
    /\ ji > Len(handles)
    /\ IF TryUnwrapOk
       THEN /\ retval' = "Ok"
            /\ todo' = DOMAIN hashes
            /\ spc' = "filter"
       ELSE /\ spc' = "unwrap_panicked"
            /\ UNCHANGED << retval, todo >>
    /\ arc_refs' = arc_refs - 1
    /\ UNCHANGED << appVars, cntVars, uiVars, wi, ji, handles, hashes,
                    lastInsert, doneCounts, hpc, remVars, envVars, sha1Vars,
                    fsVars >>

\* app.rs:140-144: one iteration of the filter loop, in the order the
\* DashMap yields its entries.
FilterEntry ==
    /\ spc = "filter"
    /\ \E key \in todo :
         /\ scan_result' = IF IsInfected(key)
                           THEN MapInsert(scan_result, key, hashes[key])
                           ELSE scan_result
         /\ todo' = todo \ {key}
    /\ UNCHANGED << scanning, scan_status, current_error, cntVars, uiVars, spc,
                    wi, ji, handles, hashes, lastInsert, retval, doneCounts, hpc,
                    remVars, envVars, sha1Vars, arc_refs, fsVars >>

\* app.rs:145: the filter loop is over.
FilterEnd ==
    /\ spc = "filter"
    /\ todo = {}
    /\ spc' = "store"
    /\ UNCHANGED << appVars, cntVars, uiVars, wi, ji, handles, hashes,
                    lastInsert, retval, todo, doneCounts, hpc, remVars,
                    envVars, sha1Vars, arc_refs,
                    fsVars >>

\* A scan thread that drops the error instead of storing it.
StoreErrorDropped ==
    /\ spc = "err"
    /\ spc' = "store"
    /\ UNCHANGED << appVars, cntVars, uiVars, wi, ji, handles, hashes,
                    lastInsert, retval, todo, doneCounts, hpc, remVars,
                    envVars, sha1Vars, arc_refs,
                    fsVars >>

\* A store of the error that does not wait for the frame's read guard.
StoreErrorNoLock ==
    /\ spc = "err"
    /\ current_error' = retval
    /\ spc' = "store"
    /\ UNCHANGED << scanning, scan_status, scan_result, cntVars, uiVars, wi, ji,
                    handles, hashes, lastInsert, retval, todo, doneCounts, hpc,
                    remVars, envVars, sha1Vars, arc_refs, fsVars >>

\* app.rs:146-148: the error compute_file_hashes returned goes to the slot;
\* current_error.write() waits while a frame holds the read guard.
StoreError ==
    /\ spc = "err"
    /\ ~ReadGuardHeld
    /\ current_error' = retval
    /\ spc' = "store"
    /\ UNCHANGED << scanning, scan_status, scan_result, cntVars, uiVars, wi, ji,
                    handles, hashes, lastInsert, retval, todo, doneCounts, hpc,
                    remVars, envVars, sha1Vars, arc_refs, fsVars >>

\* app.rs:150: scan_status.store(true).
StoreStatus ==
    /\ spc = "store"
    /\ scan_status' = TRUE
    /\ doneCounts' = << total_count, current_progress >>
    /\ spc' = "done"
    /\ UNCHANGED << scanning, current_error, scan_result, cntVars, uiVars, wi,
                    ji, handles, hashes, lastInsert, retval, todo, hpc, remVars,
                    envVars, sha1Vars, arc_refs, fsVars >>

\* ------------------------------------------------------ the hashing threads
\* A hasher that takes a failed open or read for the end of the file and
\* returns the digest of the bytes it got (none).
compute_file_sha1_SwallowErr(c, o) ==
    CASE o \in {"ok", "ioerr"} -> [tag |-> "Ok", hash |-> Sha1Hex(c)]
      [] OTHER -> [tag |-> "panic", hash |-> ""]

\* compute_file_sha1, scan.rs:63-79, on a file with content c where the
\* reads meet outcome o: Ok(digest), Err, or a panic of the thread.
compute_file_sha1(c, o) ==
    CASE o = "ok" -> [tag |-> "Ok", hash |-> Sha1Hex(c)]
      [] o = "ioerr" -> [tag |-> "Err", hash |-> ""]
      [] OTHER -> [tag |-> "panic", hash |-> ""]

\* scan.rs:45-47: the thread hashes its file and, on Ok, inserts
\* digest -> path; on Err it ends without touching the shared state.
HashRun(f) ==
    /\ hpc[f] = "run"
    /\ \E a \in Attrs :
         /\ attr' = [attr EXCEPT ![f] = a]
         /\ LET res == compute_file_sha1(a.content, a.outcome)
            IN  CASE res.tag = "Ok" ->
                       /\ hashes' = MapInsert(hashes, res.hash, f)
                       /\ lastInsert' = [k \in (DOMAIN lastInsert) \cup {res.hash} |->
                                           IF k = res.hash THEN f ELSE lastInsert[k]]
                       /\ hpc' = [hpc EXCEPT ![f] = "incr"]
                       /\ UNCHANGED arc_refs
                  [] res.tag = "Err" ->
                       /\ hpc' = [hpc EXCEPT ![f] = "finished"]
                       /\ arc_refs' = arc_refs - 1
                       /\ UNCHANGED << hashes, lastInsert >>
                  [] OTHER ->
                       /\ hpc' = [hpc EXCEPT ![f] = "panicked"]
                       /\ arc_refs' = arc_refs - 1
                       /\ UNCHANGED << hashes, lastInsert >>
    /\ UNCHANGED << appVars, cntVars, uiVars, spc, wi, ji, handles, retval,
                    todo, doneCounts, remVars, walk, sha1Vars, fsVars >>

\* A hashing thread that inserts its digest and ends without counting.
HashCountForgets(f) ==
    /\ hpc[f] = "incr"
    /\ hpc' = [hpc EXCEPT ![f] = "finished"]
    /\ arc_refs' = arc_refs - 1
    /\ UNCHANGED << appVars, cntVars, uiVars, scanVars, remVars, envVars,
                    sha1Vars, fsVars >>

\* A hashing thread that ends without dropping its clone of the Arc.
HashCountKeepsRef(f) ==
    /\ hpc[f] = "incr"
    /\ current_progress' = current_progress + 1
    /\ hpc' = [hpc EXCEPT ![f] = "finished"]
    /\ UNCHANGED << appVars, total_count, uiVars, scanVars, remVars, envVars,
                    sha1Vars, arc_refs, fsVars >>

\* scan.rs:49-51: scanned_file_count.fetch_add(1), then the closure ends
\* and drops hashes_clone.
HashCount(f) ==
    /\ hpc[f] = "incr"
    /\ current_progress' = current_progress + 1
    /\ hpc' = [hpc EXCEPT ![f] = "finished"]
    /\ arc_refs' = arc_refs - 1
    /\ UNCHANGED << appVars, total_count, uiVars, scanVars, remVars, envVars,
                    sha1Vars, fsVars >>

\* ------------------------------------------------- the remediation threads
\* std::fs::remove_file(file), scan.rs:84: the results it can return on f...
RemoveFileResults(f) ==
    IF f \notin fs THEN {"NotFound"} ELSE RemoveOutcomes

\* ... and the files that exist afterwards.
FsAfterRemove(f, res) ==
    IF res = "Ok" THEN fs \ {f} ELSE fs

\* file.exists(), scan.rs:83: false for a missing file, and false as well
\* for a file that is there when its metadata cannot be read (no search
\* permission on a parent directory, a symlink loop, ...).
ExistsResults(f) ==
    IF f \in fs THEN {TRUE, FALSE} ELSE {FALSE}

\* remove_files, scan.rs:82-83 and 88: the loop head and file.exists().
\* Past the last path the function returns Ok(()) and the thread ends.
RemCheck(r) ==
    /\ rpc[r] = "check"
    /\ IF ridx[r] > Len(rpaths[r])
       THEN /\ rres' = [rres EXCEPT ![r] = "Ok"]
            /\ rpc' = [rpc EXCEPT ![r] = "done"]
            /\ UNCHANGED ridx
       ELSE /\ \E exists \in ExistsResults(rpaths[r][ridx[r]]) :
                 IF exists
                 THEN /\ rpc' = [rpc EXCEPT ![r] = "delete"]
                      /\ UNCHANGED ridx
                 ELSE /\ ridx' = [ridx EXCEPT ![r] = ridx[r] + 1]
                      /\ UNCHANGED rpc
            /\ UNCHANGED rres
    /\ UNCHANGED << appVars, cntVars, uiVars, scanVars, hpc, rpaths, rfail,
                    rdeleted, envVars, sha1Vars, arc_refs, fsVars >>

\* A remediation that takes the deleted file out of the match map.
RemDeleteForgets(r) ==
    /\ rpc[r] = "delete"
    /\ \E res \in RemoveFileResults(rpaths[r][ridx[r]]) :
           /\ fs' = FsAfterRemove(rpaths[r][ridx[r]], res)
           /\ IF res = "Ok"
              THEN /\ rdeleted' = [rdeleted EXCEPT
                                     ![r] = rdeleted[r] \cup (fs \ fs')]
                   /\ ridx' = [ridx EXCEPT ![r] = ridx[r] + 1]
                   /\ rpc' = [rpc EXCEPT ![r] = "check"]
                   /\ scan_result' =
                        [d \in {k \in DOMAIN scan_result :
                                   scan_result[k] # rpaths[r][ridx[r]]}
                           |-> scan_result[d]]
                   /\ UNCHANGED << rres, rfail >>
              ELSE /\ rres' = [rres EXCEPT ![r] = res]
                   /\ rfail' = [rfail EXCEPT ![r] = ridx[r]]
                   /\ rpc' = [rpc EXCEPT ![r] = "write_err"]
                   /\ UNCHANGED << rdeleted, ridx, scan_result >>
    /\ UNCHANGED << scanning, scan_status, current_error, cntVars, uiVars,
                    scanVars, hpc, rpaths, envVars, sha1Vars, arc_refs >>

\* remove_files, scan.rs:84: remove_file(file)?.  An error returns at once.
RemDelete(r) ==
    /\ rpc[r] = "delete"
    /\ \E res \in RemoveFileResults(rpaths[r][ridx[r]]) :
           /\ fs' = FsAfterRemove(rpaths[r][ridx[r]], res)
           /\ IF res = "Ok"
              THEN /\ rdeleted' = [rdeleted EXCEPT ![r] = rdeleted[r] \cup (fs \ fs')]
                   /\ ridx' = [ridx EXCEPT ![r] = ridx[r] + 1]
                   /\ rpc' = [rpc EXCEPT ![r] = "check"]
                   /\ UNCHANGED << rres, rfail >>
              ELSE /\ rres' = [rres EXCEPT ![r] = res]
                   /\ rfail' = [rfail EXCEPT ![r] = ridx[r]]
                   /\ rpc' = [rpc EXCEPT ![r] = "write_err"]
                   /\ UNCHANGED << rdeleted, ridx >>
    /\ UNCHANGED << appVars, cntVars, uiVars, scanVars, hpc, rpaths,
                    envVars, sha1Vars, arc_refs >>

\* A remediation thread that ends without storing the error.
RemWriteErrDropped(r) ==
    /\ rpc[r] = "write_err"
    /\ rpc' = [rpc EXCEPT ![r] = "done"]
    /\ UNCHANGED << appVars, cntVars, uiVars, scanVars, hpc, rpaths, ridx,
                    rres, rfail, rdeleted, envVars, sha1Vars, arc_refs,
                    fsVars >>

\* app.rs:182-184: the error remove_files returned goes to the slot;
\* current_error.write() waits while a frame holds the read guard.
RemWriteErr(r) ==
    /\ rpc[r] = "write_err"
    /\ ~ReadGuardHeld
    /\ current_error' = rres[r]
    /\ rpc' = [rpc EXCEPT ![r] = "done"]
    /\ UNCHANGED << scanning, scan_status, scan_result, cntVars, uiVars,
                    scanVars, hpc, rpaths, ridx, rres, rfail, rdeleted,
                    envVars, sha1Vars, arc_refs, fsVars >>

\* ------------------------------------------------------------------- Next
Next ==
    \/ FrameTop
    \/ FrameBeginScan
    \/ FrameComplete
    \/ FrameRemoveFiles
    \/ FrameScanning
    \/ WalkEntry
    \/ SpawnPanic
    \/ WalkEnd
    \/ JoinHandle
    \/ ReturnOk
    \/ FilterEntry
    \/ FilterEnd
    \/ StoreError
    \/ StoreStatus
    \/ \E f \in DOMAIN attr : HashRun(f)
    \/ \E f \in DOMAIN attr : HashCount(f)
    \/ \E r \in Rems : RemCheck(r)
    \/ \E r \in Rems : RemDelete(r)
    \/ \E r \in Rems : RemWriteErr(r)

Spec == Init /\ [][Next]_vars

\* The steps of each thread, for the fairness the scheduler gives: a thread
\* that can take a step eventually takes one.
UiStep ==
    \/ FrameTop
    \/ FrameComplete
    \/ FrameScanning

ScanStep ==
    \/ WalkEntry
    \/ SpawnPanic
    \/ WalkEnd
    \/ JoinHandle
    \/ ReturnOk
    \/ FilterEntry
    \/ FilterEnd
    \/ StoreError
    \/ StoreStatus

HashStep(f) == f \in DOMAIN hpc /\ (HashRun(f) \/ HashCount(f))

RemStep(r) == RemCheck(r) \/ RemDelete(r) \/ RemWriteErr(r)

\* A write to the error slot is enabled only between the frames' read guards;
\* the lock (egui::mutex::RwLock, app.rs:3) hands itself to a waiting writer
\* when the guard is released, hence the strong fairness of the two writes.
FairSpec ==
    /\ Spec
    /\ WF_vars(UiStep)
    /\ WF_vars(ScanStep)
    /\ \A f \in 1..MaxFiles : WF_vars(HashStep(f))
    /\ \A r \in Rems : WF_vars(RemStep(r))
    /\ SF_vars(StoreError)
    /\ \A r \in Rems : SF_vars(RemWriteErr(r))

\* ===================================== compute_file_sha1, byte by byte
\* The read loop of compute_file_sha1 (scan.rs:63-79) on one file whose bytes
\* are fbytes.  The buffer has BUFFER_SIZE slots (1024 * 1024 in the source,
\* scaled down here); a read returns any number of bytes from 1 to the
\* buffer's length while bytes remain, 0 at the end of the file, or an error.
Bytes == {97, 98}

FileContents == UNION {[1..n -> Bytes] : n \in 0..MaxLen}

\* SHA-1 as "{:x}" prints it (scan.rs:78), for the byte strings over Bytes of
\* up to four bytes.
Sha1 ==
    [b \in UNION {[1..n -> Bytes] : n \in 0..4} |->
        CASE b = << >> -> "da39a3ee5e6b4b0d3255bfef95601890afd80709"
          [] b = << 97 >> -> "86f7e437faa5a7fce15d1ddcb9eaeaea377667b8"
          [] b = << 98 >> -> "e9d71f5ee7c92d6dc9e92ffdad17b8bd49418f98"
          [] b = << 97, 97 >> -> "e0c9035898dd52fc65c41454cec9c4d2611bfb37"
          [] b = << 97, 98 >> -> "da23614e02469a0d7c7bd1bdab5c9c474b1904dc"
          [] b = << 98, 97 >> -> "6c0596b8ac609191181a90517d51c0b486f23799"
          [] b = << 98, 98 >> -> "9a900f538965a426994e1e90600920aff0b4e8d2"
          [] b = << 97, 97, 97 >> -> "7e240de74fb1ed08fa08d38063f6a6a91462a815"
          [] b = << 97, 97, 98 >> -> "40b904fd8852297daeaeb426b1bca46fd2454aa3"
          [] b = << 97, 98, 97 >> -> "4d5eccf93739c6305aaf8969a682cc57e1fd7395"
          [] b = << 97, 98, 98 >> -> "c64d3fcde20c5cd03142171e5ac47a87aa3c8ace"
          [] b = << 98, 97, 97 >> -> "4c9e34ef422397925c3c36973e5fe35f0bab8fad"
          [] b = << 98, 97, 98 >> -> "877c87cc9c2518f8f74964a9454d73f8bb86ffd6"
          [] b = << 98, 98, 97 >> -> "ff8d38b041e38935307c261cdd2923e9b9e5dc00"
          [] b = << 98, 98, 98 >> -> "5cb138284d431abd6a053a56625ec088bfb88912"
          [] b = << 97, 97, 97, 97 >> -> "70c881d4a26984ddce795f6f71817c9cf4480e79"
          [] b = << 97, 97, 97, 98 >> -> "f1abd73aa0858634f18d36bf5666194958a8b7d2"
          [] b = << 97, 97, 98, 97 >> -> "b22dbea13e4cb439201945debb4bd9e7a3bc55e2"
          [] b = << 97, 97, 98, 98 >> -> "28cc5fd736aee0939ede3330c2867b31e82d9656"
          [] b = << 97, 98, 97, 97 >> -> "65c95d8f03ec9b2d1cf79608ff2751dc758b02b0"
          [] b = << 97, 98, 97, 98 >> -> "4c1acec4625f4a7f669743d6642b75f5c4b7139a"
          [] b = << 97, 98, 98, 97 >> -> "70a0340fd6fbba6116416de0a7ad93c1cb37ba99"
          [] b = << 97, 98, 98, 98 >> -> "d7bfa42fc62b697bf6cf1cda9af1fb7f40a27817"
          [] b = << 98, 97, 97, 97 >> -> "482b6030b9e34dec48d3adf5cb85081994923852"
          [] b = << 98, 97, 97, 98 >> -> "be1a6408fbebaa77d944a65d6088711b0c2e827a"
          [] b = << 98, 97, 98, 97 >> -> "b78b647728101ba462182b4c7e5b2ca57b9f5a99"
          [] b = << 98, 97, 98, 98 >> -> "7e9f32658e238482d7f297bc6ce68548e4c3a9ec"
          [] b = << 98, 98, 97, 97 >> -> "c4cf57c7824b6deebea1bd8c8512a17fa16aba19"
          [] b = << 98, 98, 97, 98 >> -> "c6e8e86d8b29cef31125683d5d6cb190f74280d0"
          [] b = << 98, 98, 98, 97 >> -> "f14da341bdf6d16ca592edd34cbd9bc46458b6bd"
          [] b = << 98, 98, 98, 98 >> -> "8aed1322e5450badb078e1fb60a817a1df25a2ca"
          [] OTHER -> "unlisted"]

\* Sha1::new(), update() and finalize(), scan.rs:67,75,78: the hasher is the
\* sequence of bytes fed so far, the digest is the SHA-1 of that sequence.
Finalize(h) == IF h \in DOMAIN Sha1 THEN Sha1[h] ELSE "unlisted"

\* The whole buffer is fed, whatever the read returned.
UpdateWholeBuffer(h, buf, n) == h \o buf

\* hasher.update(&buffer[..bytes_read]), scan.rs:75.
Update(h, buf, n) == h \o SubSeq(buf, 1, n)

\* file.read(&mut buffer), scan.rs:71, returning Ok(n): the next n bytes of
\* the file overwrite the first n slots, the other slots keep what they held.
ReadInto(buf, n) ==
    [i \in 1..Len(buf) |-> IF i <= n THEN fbytes[fpos + i] ELSE buf[i]]

ReadSizes ==
    LET left == Len(fbytes) - fpos
    IN  IF left = 0 THEN {0}
        ELSE 1..(IF left < BUFFER_SIZE THEN left ELSE BUFFER_SIZE)

\* scan.rs:66-68: File::open(file_path)?, Sha1::new(), vec![0; BUFFER_SIZE].
OpenFile ==
    /\ sha1pc = "open"
    /\ \E ok \in BOOLEAN :
         IF ok
         THEN /\ sha1pc' = "read"
              /\ hasher' = << >>
              /\ buffer' = [i \in 1..BUFFER_SIZE |-> 0]
              /\ UNCHANGED sha1res
         ELSE /\ sha1pc' = "done"
              /\ sha1res' = "Err"
              /\ UNCHANGED << hasher, buffer >>
    /\ UNCHANGED << fbytes, fpos >>
    /\ UNCHANGED << appVars, cntVars, uiVars, scanVars, hpc, remVars, envVars,
                    arc_refs, fsVars >>

\* scan.rs:71-75: one turn of the loop in which the read returns n > 0 bytes.
ReadChunk ==
    /\ sha1pc = "read"
    /\ \E n \in ReadSizes \ {0} :
         /\ buffer' = ReadInto(buffer, n)
         /\ hasher' = Update(hasher, buffer', n)
         /\ fpos' = fpos + n
    /\ UNCHANGED << sha1pc, fbytes, sha1res >>
    /\ UNCHANGED << appVars, cntVars, uiVars, scanVars, hpc, remVars, envVars,
                    arc_refs, fsVars >>

\* scan.rs:71: the read fails and `?` returns the error; the hasher is
\* dropped without a digest.
ReadError ==
    /\ sha1pc = "read"
    /\ sha1pc' = "done"
    /\ sha1res' = "Err"
    /\ UNCHANGED << fbytes, fpos, buffer, hasher >>
    /\ UNCHANGED << appVars, cntVars, uiVars, scanVars, hpc, remVars, envVars,
                    arc_refs, fsVars >>

\* scan.rs:71-73,78: the read returns 0, the loop breaks and the digest is
\* formatted and returned.
ReadEof ==
    /\ sha1pc = "read"
    /\ 0 \in ReadSizes
    /\ sha1pc' = "done"
    /\ sha1res' = Finalize(hasher)
    /\ UNCHANGED << fbytes, fpos, buffer, hasher >>
    /\ UNCHANGED << appVars, cntVars, uiVars, scanVars, hpc, remVars, envVars,
                    arc_refs, fsVars >>

\* One call of compute_file_sha1 on a file of at most MaxLen bytes; the rest
\* of the program is at rest.
HashInit ==
    /\ attr = << >>
    /\ walk = WalkOf(0, 0)
    /\ fs = {}
    /\ scanning = FALSE
    /\ scan_status = FALSE
    /\ current_error = "None"
    /\ scan_result = EmptyMap
    /\ total_count = 0
    /\ current_progress = 0
    /\ upc = "top"
    /\ view = "none"
    /\ spc = "idle"
    /\ wi = 1
    /\ ji = 1
    /\ handles = << >>
    /\ hashes = EmptyMap
    /\ lastInsert = EmptyMap
    /\ retval = "none"
    /\ todo = {}
    /\ hpc = << >>
    /\ rpc = [r \in Rems |-> "unspawned"]
    /\ rpaths = [r \in Rems |-> << >>]
    /\ ridx = [r \in Rems |-> 1]
    /\ rres = [r \in Rems |-> "none"]
    /\ rfail = [r \in Rems |-> 0]
    /\ rdeleted = [r \in Rems |-> {}]
    /\ doneCounts = << 0, 0 >>
    /\ arc_refs = 0
    /\ sha1pc = "open"
    /\ fbytes \in FileContents
    /\ fpos = 0
    /\ buffer = << >>
    /\ hasher = << >>
    /\ sha1res = "none"

HashNext ==
    \/ OpenFile
    \/ ReadChunk
    \/ ReadError
    \/ ReadEof

HashSpec == HashInit /\ [][HashNext]_vars

\* ============================================================== properties
AllFiles == DOMAIN attr
NFiles == Cardinality(AllFiles)
WalkFailed == \E i \in DOMAIN walk : walk[i].kind = "err"
HashedOk == {f \in AllFiles : attr[f].outcome = "ok"}
HashFailed == {f \in AllFiles : attr[f].outcome = "ioerr"}
Panicked == {f \in AllFiles : attr[f].outcome = "panic"}
Running == {f \in AllFiles : hpc[f] \in {"run", "incr"}}
Signatures == Range(INFECTED_HASHES)
ScanFailed == retval \in {"WalkDir", "JoinError"}

\* C1: compute_file_hashes returns, on every path, only after every hashing
\* thread it has spawned has finished; so once the completion flag is set no
\* hashing thread is running and the two counters keep the values they had
\* when the flag was set.
C1_ReturnsAfterAllThreads ==
    /\ retval # "none" => \A f \in Range(handles) : f \notin Running
    /\ scan_status => /\ Running = {}
                      /\ << total_count, current_progress >> = doneCounts

\* C2: for a tree of N regular files, all readable, walked without error,
\* the discovered and the completed counter both equal N when the completion
\* flag is set, and from then on.
C2_CountsAtCompletion ==
    (scan_status /\ ~WalkFailed /\ HashFailed = {} /\ Panicked = {})
        => /\ doneCounts = << NFiles, NFiles >>
           /\ total_count = NFiles
           /\ current_progress = NFiles

C2_Witness ==
    /\ scan_status /\ ~WalkFailed
    /\ NFiles >= 2
    /\ HashedOk = AllFiles
    /\ current_progress = NFiles

\* C3: a file that cannot be hashed is skipped and nothing else: with F of
\* the N files failing (and no walk error, no panic) the scan returns Ok, the
\* scan thread leaves the error slot alone, discovered is N, completed is
\* N - F, and no failed file is a value of the digest map or of the match map.
C3_HashFailureIsLocal ==
    (scan_status /\ ~WalkFailed /\ Panicked = {})
        => /\ retval = "Ok"
           /\ current_error \in {"None"} \cup IoErrors
           /\ current_error \in IoErrors
                 => \E r \in Rems : rfail[r] # 0 /\ rres[r] = current_error
           /\ doneCounts = << NFiles, NFiles - Cardinality(HashFailed) >>
           /\ total_count = NFiles
           /\ current_progress = NFiles - Cardinality(HashFailed)
           /\ \A f \in HashFailed :
                 f \notin Range(hashes) /\ f \notin Range(scan_result)

C3_Witness ==
    /\ scan_status /\ ~WalkFailed
    /\ NFiles = 2
    /\ Cardinality(HashFailed) = 1
    /\ current_progress = 1
    /\ current_error = "None"

\* C4: after a successful scan the match map is the digest map restricted to
\* the signatures: same keys among the signatures, same paths.
C4_MatchIsRestriction ==
    (scan_status /\ retval = "Ok")
        => /\ DOMAIN scan_result = (DOMAIN hashes) \cap Signatures
           /\ \A d \in DOMAIN scan_result : scan_result[d] = hashes[d]

C4_Witness ==
    /\ scan_status /\ retval = "Ok"
    /\ scan_result # EmptyMap
    /\ DOMAIN scan_result # DOMAIN hashes

\* C5: a frame renders the scan-complete view (clean, or the list of
\* matches) only for a scan that ended without error: the scan thread stores
\* the error before the flag and cannot store it while a frame that has read
\* the slot is still in its chain.
C5_CompleteViewOnlyWithoutError ==
    view \in {"clean", "malware"} => ~ScanFailed

C5_Witness ==
    /\ ScanFailed
    /\ scan_status
    /\ (DOMAIN hashes) \cap Signatures # {}
    /\ upc = "top"
    /\ view = "error"

\* C6: when compute_file_hashes fails, the match map is and stays empty, and
\* the error is in the slot by the time the completion flag is set.
C6_ErrorHidesMatches ==
    ScanFailed
        => /\ scan_result = EmptyMap
           /\ spc \in {"store", "done"} => current_error = retval
           /\ scan_status => current_error = retval

C6_Witness ==
    /\ scan_status
    /\ retval = "JoinError"
    /\ (DOMAIN hashes) \cap Signatures # {}
    /\ scan_result = EmptyMap

\* C7: remove_files never returns an error for a path that is missing,
\* whenever the file went away.
C7_MissingIsNeverAnError ==
    \A r \in Rems : rres[r] # "NotFound"

\* C8: when the deletion of path number i fails, remove_files returns at
\* once: the paths before i are gone and stay gone, the call has deleted no
\* path after i, and the thread writes the error to the slot before it ends.
\* (The code leaves a path before i in place when file.exists() said false
\* of a file that is there.)
C8_FailFastNoRollback ==
    \A r \in Rems :
        rfail[r] # 0
            => /\ ridx[r] = rfail[r]
               /\ rres[r] \in {"NotFound", "PermissionDenied"}
               /\ rpc[r] \in {"write_err", "done"}
               /\ \A j \in 1..(rfail[r] - 1) : rpaths[r][j] \notin fs
               /\ \A j \in (rfail[r] + 1)..Len(rpaths[r]) :
                     rpaths[r][j] \notin rdeleted[r]
               /\ rpc[r] = "done" => current_error \in IoErrors
               /\ (rpc[r] = "done" /\ \A q \in Rems \ {r} : rfail[q] = 0)
                     => current_error = rres[r]

\* C9: when remove_files returns Ok, none of its paths exists, the call has
\* deleted nothing but its paths, and every file that is gone was deleted by
\* a remove_files call.
C9_SuccessRemovesExactlyInputs ==
    \A r \in Rems :
        rres[r] = "Ok"
            => /\ Range(rpaths[r]) \cap fs = {}
               /\ rdeleted[r] \subseteq Range(rpaths[r])
               /\ fs = AllFiles \ UNION {rdeleted[q] : q \in Rems}

\* C10: when compute_file_hashes returns Ok, each digest of a hashed file is
\* one key of the map, its path is the one inserted last, and the completed
\* counter counts every hashed file, so it can exceed the number of keys.
C10_LastWriterWins ==
    retval = "Ok"
        => /\ DOMAIN hashes = {Sha1Hex(attr[f].content) : f \in HashedOk}
           /\ \A d \in DOMAIN hashes : hashes[d] = lastInsert[d]
           /\ current_progress = Cardinality(HashedOk)
           /\ Cardinality(DOMAIN hashes) <= current_progress

C10_Witness ==
    /\ retval = "Ok"
    /\ HashedOk = {1, 2}
    /\ attr[1].content = attr[2].content
    /\ hashes[Sha1Hex(attr[1].content)] = 1
    /\ current_progress = 2
    /\ Cardinality(DOMAIN hashes) = 1

\* C11: a remediation thread exists only after a scan that ended without
\* error: the flag is set, compute_file_hashes returned Ok, the scan thread
\* and every hashing thread have ended, and "Begin scan" is disabled.
C11_RemediationAfterScan ==
    \A r \in Rems :
        rpc[r] # "unspawned"
            => /\ scan_status
               /\ scanning
               /\ retval = "Ok"
               /\ current_error \notin {"WalkDir", "JoinError"}
               /\ spc = "done"
               /\ Running = {}
               /\ Range(rpaths[r]) = Range(scan_result)

C11_Witness ==
    \E r \in Rems : rpc[r] = "delete" /\ Len(rpaths[r]) = 2

\* C12: a scan that was started ends: the completion flag is eventually
\* set, with the error in the slot when the scan failed, and once set it is
\* never cleared.
C12_ScanTerminates ==
    /\ scanning ~> scan_status
    /\ [](scan_status /\ ScanFailed => current_error # "None")
    /\ [][scan_status => scan_status']_vars

\* C13: once the completion flag is set the match map does not change.
C13_MatchMapFrozen ==
    [][scan_status => scan_result' = scan_result]_vars

C13_Witness ==
    /\ scan_status
    /\ \E r \in Rems :
         /\ rdeleted[r] # {}
         /\ rdeleted[r] \subseteq Range(scan_result)

\* C14: in the step that starts the scan thread both counters are zero.
C14_CountersZeroAtStart ==
    [][(spc # "walk" /\ spc' = "walk")
          => (total_count = 0 /\ current_progress = 0)]_vars

C14_Witness ==
    /\ scanning /\ spc = "walk" /\ wi = 1
    /\ NFiles = 2
    /\ total_count = 0 /\ current_progress = 0

\* C15: no step decreases a counter or removes a key of the digest map.
C15_SharedStateGrows ==
    [][/\ total_count' >= total_count
       /\ current_progress' >= current_progress
       /\ DOMAIN hashes \subseteq DOMAIN hashes']_vars

C15_Witness ==
    /\ Cardinality(DOMAIN hashes) = 2
    /\ current_progress = 2
    /\ total_count = 2

\* C16: an error returned by compute_file_hashes or remove_files is in the
\* slot once its thread has stored it, the slot is never emptied again, and
\* every frame that starts with an error in the slot shows an error.
C16_NoErrorDropped ==
    /\ [](/\ ScanFailed /\ spc \in {"store", "done"} => current_error # "None"
          /\ \A r \in Rems :
                rfail[r] # 0 /\ rpc[r] = "done" => current_error # "None")
    /\ [][current_error # "None" => current_error' # "None"]_vars
    /\ [](ReadGuardHeld => current_error = "None")
    /\ [][(current_error # "None" /\ upc \in {"top", "slot"})
             => (upc' \in {upc, "top"} /\ view' \in {view, "error"})]_vars
    /\ [][(current_error # "None" /\ upc = "slot" /\ upc' # upc)
             => (upc' = "top" /\ view' = "error")]_vars

C16_Witness ==
    /\ \A r \in Rems : rfail[r] # 0 /\ rpc[r] = "done"
    /\ current_error \in IoErrors
    /\ view = "error"

\* C17: compute_file_sha1 feeds every byte of the file to the hasher once
\* and in file order whatever the sizes of the reads: the hasher always holds
\* the bytes read so far, the stale tail of the buffer is never fed, the loop
\* ends at the first read at the end of the file, an Ok result is the SHA-1
\* of the whole file (so it depends on the bytes only, not on how the reads
\* were split), and a failed open or read gives Err and no digest.
C17_EveryByteOnceInOrder ==
    /\ [](sha1pc = "read" => hasher = SubSeq(fbytes, 1, fpos))
    /\ [](sha1pc = "done" /\ sha1res # "Err"
             => /\ fpos = Len(fbytes)
                /\ hasher = fbytes
                /\ sha1res = Sha1[fbytes])
    /\ [](sha1res = "Err" => sha1pc = "done")
    /\ [][(sha1pc = "read" /\ fpos = Len(fbytes)) => sha1pc' = "done"]_vars
    /\ [][(sha1pc = "read" /\ sha1pc' = "done" /\ fpos < Len(fbytes))
             => sha1res' = "Err"]_vars
    /\ [][sha1pc = "done" => sha1res' = sha1res]_vars

C17_Witness ==
    /\ sha1pc = "done"
    /\ fbytes = << 97, 97, 98 >>
    /\ sha1res = Sha1[fbytes]
    /\ buffer[1] = 98 /\ buffer[2] = 97

\* C18: the completed counter never exceeds the discovered counter.
C18_CompletedLeDiscovered ==
    current_progress <= total_count

C18_Witness ==
    /\ total_count = 2
    /\ current_progress = 1
    /\ Running # {}

\* C19: a scan thread is started only from the state in which none was ever
\* started and both flags are false; the flags are never reset, so no second
\* scan thread starts.
C19_AtMostOneScan ==
    /\ [](scanning <=> spc # "idle")
    /\ [](scan_status => scanning)
    /\ [][/\ (spc # "walk" /\ spc' = "walk")
                => (spc = "idle" /\ ~scanning /\ ~scan_status)
          /\ scanning => scanning'
          /\ scan_status => scan_status'
          /\ spc # "idle" => spc' # "idle"]_vars

C19_Witness ==
    /\ spc = "done"
    /\ view = "clean"
    /\ upc = "top"

\* C20: when the scan thread reaches Arc::try_unwrap(hashes).unwrap(), every
\* hashing thread has ended and dropped its clone, so the count is 1 and the
\* unwrap does not panic.
C20_TryUnwrapNeverFails ==
    /\ spc # "unwrap_panicked"
    /\ (spc = "join" /\ ji > Len(handles))
          => /\ arc_refs = 1
             /\ \A f \in Range(handles) : hpc[f] = "finished"

C20_Witness ==
    /\ retval = "Ok"
    /\ Len(handles) = 2
    /\ current_progress = 1

====
